---------------------------- MODULE Spec2Model ----------------------------
(***************************************************************************)
(* Model of src/app.py: keyword expansion (process_multiple_keywords),     *)
(* matching (fuzzy_match_keywords), relevance scoring                      *)
(* (calculate_marketing_relevance, categorize_marketing_potential) and the *)
(* search pipeline (get_enhanced_reddit_posts).                            *)
(*                                                                         *)
(* A Python str is modelled as a sequence of one-character strings.        *)
(***************************************************************************)
EXTENDS Integers, Sequences, FiniteSets, TLC

VARIABLES
    pc,                 \* position of the running call
    args,               \* arguments of a directly invoked helper function
    ret,                \* its return value
    keyword_input,      \* get_enhanced_reddit_posts: parameters
    start_date,
    end_date,
    subreddits,
    comment_filter,
    fuzzy_threshold,
    keyword_variations, \* get_enhanced_reddit_posts: locals
    search_queries,
    sub_idx,            \* position of `for sub in target_subreddits`
    query_idx,          \* position of `for query in search_queries`
    posts,
    unique_posts,       \* the returned list
    warnings,           \* st.warning calls made so far, in order
    searched,           \* indexes of the channels a search call was made for
    failed,             \* indexes of the channels whose search raised
    served              \* the search source: non-empty listings returned so far

pipeVars == <<keyword_input, start_date, end_date, subreddits, comment_filter,
              fuzzy_threshold, keyword_variations, search_queries, sub_idx,
              query_idx, posts, unique_posts, warnings, searched,
              failed, served>>
vars == <<pc, args, ret, pipeVars>>

NoValue == "none"

-----------------------------------------------------------------------------
(* Python str primitives *)

Whitespace == {" ", "\t", "\n", "\r"}

UpperToLower ==
    [c \in {"A","B","C","D","E","F","G","H","I","J","K","L","M","N","O","P",
            "Q","R","S","T","U","V","W","X","Y","Z"} |->
        CASE c = "A" -> "a" [] c = "B" -> "b" [] c = "C" -> "c" [] c = "D" -> "d"
          [] c = "E" -> "e" [] c = "F" -> "f" [] c = "G" -> "g" [] c = "H" -> "h"
          [] c = "I" -> "i" [] c = "J" -> "j" [] c = "K" -> "k" [] c = "L" -> "l"
          [] c = "M" -> "m" [] c = "N" -> "n" [] c = "O" -> "o" [] c = "P" -> "p"
          [] c = "Q" -> "q" [] c = "R" -> "r" [] c = "S" -> "s" [] c = "T" -> "t"
          [] c = "U" -> "u" [] c = "V" -> "v" [] c = "W" -> "w" [] c = "X" -> "x"
          [] c = "Y" -> "y" [] c = "Z" -> "z"]

\* str.lower()
lower(s) ==
    [i \in 1..Len(s) |-> IF s[i] \in DOMAIN UpperToLower THEN UpperToLower[s[i]] ELSE s[i]]

RECURSIVE lstrip(_)
lstrip(s) ==
    IF s # <<>> /\ Head(s) \in Whitespace THEN lstrip(Tail(s)) ELSE s

RECURSIVE rstrip(_)
rstrip(s) ==
    IF s # <<>> /\ s[Len(s)] \in Whitespace THEN rstrip(SubSeq(s, 1, Len(s) - 1)) ELSE s

\* str.strip()
strip(s) == rstrip(lstrip(s))

RECURSIVE splitFrom(_, _)
splitFrom(s, cur) ==
    IF s = <<>> THEN (IF cur = <<>> THEN <<>> ELSE <<cur>>)
    ELSE IF Head(s) \in Whitespace
         THEN (IF cur = <<>> THEN splitFrom(Tail(s), <<>>)
                             ELSE <<cur>> \o splitFrom(Tail(s), <<>>))
         ELSE splitFrom(Tail(s), Append(cur, Head(s)))

\* str.split() with no argument: the maximal runs of non-whitespace
split(s) == splitFrom(s, <<>>)

RECURSIVE join(_, _)
\* sep.join(words)
join(sep, words) ==
    IF words = <<>> THEN <<>>
    ELSE IF Len(words) = 1 THEN words[1]
    ELSE words[1] \o sep \o join(sep, Tail(words))

\* `sub in s` for strings
contains(sub, s) ==
    \E i \in 1..(Len(s) - Len(sub) + 1) : SubSeq(s, i, i + Len(sub) - 1) = sub

\* the elements of a sequence
Range(s) == {s[i] : i \in 1..Len(s)}

\* all sequences over S of length at most n
SeqsUpTo(S, n) == UNION {[1..k -> S] : k \in 0..n}

-----------------------------------------------------------------------------
(* KeywordExpander: generate_keyword_variations, process_multiple_keywords *)

Delimiters == {",", ";", "\n"}

RECURSIVE reSplitFrom(_, _, _)
reSplitFrom(s, cur, afterDelim) ==
    IF s = <<>> THEN <<cur>>
    ELSE IF Head(s) \in Delimiters
         THEN (IF afterDelim THEN reSplitFrom(Tail(s), <<>>, TRUE)
                             ELSE <<cur>> \o reSplitFrom(Tail(s), <<>>, TRUE))
         ELSE reSplitFrom(Tail(s), Append(cur, Head(s)), FALSE)

\* re.split(r'[,;\n]+', s): the pieces between runs of delimiters, the empty
\* leading and trailing pieces included
re_split(s) == reSplitFrom(s, <<>>, FALSE)

\* p.plural(word) of the inflect engine, on the words of the model's
\* alphabet: the regular plural
plural(word) ==
    IF word = <<>> THEN <<>> ELSE Append(word, "s")

generate_keyword_variations(keyword) ==
    LET keyword_clean == lower(strip(keyword))
        words == split(keyword_clean)
        pluralAt(i) ==
            LET plural_word == plural(words[i])
                plural_words == [words EXCEPT ![i] = plural_word]
            IN  IF plural_word # <<>> /\ plural_word # words[i]
                THEN {join(<<" ">>, plural_words), join(<<"-">>, plural_words),
                      join(<<>>, plural_words)}
                ELSE {}
    IN  {keyword_clean}
        \cup (IF Len(words) > 1
              THEN {join(<<"-">>, words), join(<<>>, words)}
                   \cup UNION {pluralAt(i) : i \in 1..Len(words)}
              ELSE {})
        \cup (IF Len(words) = 1
                 /\ plural(keyword_clean) # <<>>
                 /\ plural(keyword_clean) # keyword_clean
              THEN {plural(keyword_clean)}
              ELSE {})
        \cup (IF Len(words) > 1
              THEN {join(<<" ">>, words), join(<<"_">>, words)}
              ELSE {})

\* a plausible slip: the first piece of the split is skipped
process_multiple_keywords_skipfirst(input) ==
    IF strip(input) = <<>> THEN {}
    ELSE LET keywords == Tail(re_split(input))
         IN  UNION {generate_keyword_variations(strip(keywords[i])) :
                      i \in {j \in 1..Len(keywords) : strip(keywords[j]) # <<>>}}

\* the VariantSet as a set; list(set(...)) fixes no order
process_multiple_keywords(input) ==
    IF strip(input) = <<>> THEN {}
    ELSE LET keywords == re_split(input)
         IN  UNION {generate_keyword_variations(strip(keywords[i])) :
                      i \in {j \in 1..Len(keywords) : strip(keywords[j]) # <<>>}}

-----------------------------------------------------------------------------
(* fuzz.ratio and fuzz.partial_ratio of fuzzywuzzy, over difflib's          *)
(* SequenceMatcher (no junk): indexes are 1-based here, 0-based in Python   *)

Min(x, y) == IF x <= y THEN x ELSE y
Max(x, y) == IF x >= y THEN x ELSE y

\* utils.intr(100 * 2.0 * m / t): Python's round, halves to the even integer
intr100(m, t) ==
    LET q == (200 * m) \div t
        r == (200 * m) % t
    IN  IF 2 * r > t THEN q + 1
        ELSE IF 2 * r = t THEN (IF q % 2 = 0 THEN q ELSE q + 1)
        ELSE q

\* SequenceMatcher.find_longest_match(alo, ahi, blo, bhi): the longest block
\* a[i..i+k-1] = b[j..j+k-1]; of those the one starting earliest in a, then
\* earliest in b; k = 0 when no element matches
find_longest_match(a, alo, ahi, b, blo, bhi) ==
    LET cands == {c \in (alo..ahi) \X (blo..bhi) \X (1..Min(ahi - alo + 1, bhi - blo + 1)) :
                    /\ c[1] + c[3] - 1 <= ahi
                    /\ c[2] + c[3] - 1 <= bhi
                    /\ SubSeq(a, c[1], c[1] + c[3] - 1) = SubSeq(b, c[2], c[2] + c[3] - 1)}
    IN  IF cands = {} THEN <<alo, blo, 0>>
        ELSE CHOOSE c \in cands :
                \A d \in cands :
                    \/ c[3] > d[3]
                    \/ c[3] = d[3] /\ c[1] < d[1]
                    \/ c[3] = d[3] /\ c[1] = d[1] /\ c[2] <= d[2]

RECURSIVE matching_blocks_in(_, _, _, _, _, _)
\* the recursion of SequenceMatcher.get_matching_blocks: the longest match,
\* then the matches to its left and to its right
matching_blocks_in(a, alo, ahi, b, blo, bhi) ==
    IF alo > ahi \/ blo > bhi THEN <<>>
    ELSE LET m == find_longest_match(a, alo, ahi, b, blo, bhi)
         IN  IF m[3] = 0 THEN <<>>
             ELSE matching_blocks_in(a, alo, m[1] - 1, b, blo, m[2] - 1)
                  \o <<m>>
                  \o matching_blocks_in(a, m[1] + m[3], ahi, b, m[2] + m[3], bhi)

\* SequenceMatcher(None, a, b).get_matching_blocks(), the terminating
\* zero-length block (len(a), len(b), 0) included
get_matching_blocks(a, b) ==
    Append(matching_blocks_in(a, 1, Len(a), b, 1, Len(b)), <<Len(a) + 1, Len(b) + 1, 0>>)

RECURSIVE SumSizes(_)
SumSizes(blocks) ==
    IF blocks = <<>> THEN 0 ELSE Head(blocks)[3] + SumSizes(Tail(blocks))

\* intr(100 * SequenceMatcher(None, a, b).ratio()): 2.0 * matches / length,
\* and 1.0 for two empty sequences
matcher_ratio(a, b) ==
    IF Len(a) + Len(b) = 0 THEN 100
    ELSE intr100(SumSizes(get_matching_blocks(a, b)), Len(a) + Len(b))

\* fuzz.ratio(s1, s2), with its check_for_equivalence and check_empty_string
fuzz_ratio(s1, s2) ==
    IF s1 = s2 THEN 100
    ELSE IF Len(s1) = 0 \/ Len(s2) = 0 THEN 0
    ELSE matcher_ratio(s1, s2)

\* fuzz.partial_ratio(s1, s2): the best ratio of the shorter string against
\* the window of the longer one that each matching block aligns it with
fuzz_partial_ratio(s1, s2) ==
    IF s1 = s2 THEN 100
    ELSE IF Len(s1) = 0 \/ Len(s2) = 0 THEN 0
    ELSE LET shorter == IF Len(s1) <= Len(s2) THEN s1 ELSE s2
             longer == IF Len(s1) <= Len(s2) THEN s2 ELSE s1
             blocks == get_matching_blocks(shorter, longer)
             score(block) ==
                 LET long_start == Max(block[2] - block[1], 0)
                     long_end == Min(long_start + Len(shorter), Len(longer))
                 IN  matcher_ratio(shorter, SubSeq(longer, long_start + 1, long_end))
             scores == {score(blocks[i]) : i \in 1..Len(blocks)}
         IN  CHOOSE r \in scores : \A q \in scores : r >= q

-----------------------------------------------------------------------------
(* MatchEngine: fuzzy_match_keywords *)

MatchResult(has_match, matched_keyword, match_score) ==
    [matched |-> has_match, variation |-> matched_keyword, score |-> match_score]

RECURSIVE word_pass(_, _, _)
\* the word ratios alone, over all variations
word_pass(words, variations, threshold) ==
    IF variations = <<>> THEN MatchResult(FALSE, NoValue, 0)
    ELSE LET variation == Head(variations)
             hits == {i \in 1..Len(words) : fuzz_ratio(variation, words[i]) >= threshold}
         IN  IF hits # {}
             THEN MatchResult(TRUE, variation,
                      fuzz_ratio(variation, words[CHOOSE i \in hits : \A j \in hits : i <= j]))
             ELSE word_pass(words, Tail(variations), threshold)

RECURSIVE partial_pass(_, _, _)
\* the partial ratios alone, over all variations
partial_pass(text_lower, variations, threshold) ==
    IF variations = <<>> THEN MatchResult(FALSE, NoValue, 0)
    ELSE IF fuzz_partial_ratio(Head(variations), text_lower) >= threshold
         THEN MatchResult(TRUE, Head(variations),
                          fuzz_partial_ratio(Head(variations), text_lower))
         ELSE partial_pass(text_lower, Tail(variations), threshold)

\* a plausible slip: the partial ratio is tried in a loop of its own, after
\* the word ratios of every variation
fuzzy_loop_staged(text_lower, words, variations, threshold) ==
    IF word_pass(words, variations, threshold).matched
    THEN word_pass(words, variations, threshold)
    ELSE partial_pass(text_lower, variations, threshold)

RECURSIVE fuzzy_loop(_, _, _, _)
\* lines 96-107: per variation, every word's ratio and then the partial
\* ratio against the whole text, before the next variation is looked at
fuzzy_loop(text_lower, words, variations, threshold) ==
    IF variations = <<>> THEN MatchResult(FALSE, NoValue, 0)
    ELSE LET variation == Head(variations)
             hits == {i \in 1..Len(words) : fuzz_ratio(variation, words[i]) >= threshold}
         IN  IF hits # {}
             THEN MatchResult(TRUE, variation,
                      fuzz_ratio(variation, words[CHOOSE i \in hits : \A j \in hits : i <= j]))
             ELSE IF fuzz_partial_ratio(variation, text_lower) >= threshold
             THEN MatchResult(TRUE, variation, fuzz_partial_ratio(variation, text_lower))
             ELSE fuzzy_loop(text_lower, words, Tail(variations), threshold)

\* a plausible slip: the direct substring pass (lines 89-92) is missing
fuzzy_match_keywords_nodirect(text, variations, threshold) ==
    fuzzy_loop(lower(text), split(lower(text)), variations, threshold)

fuzzy_match_keywords(text, variations, threshold) ==
    LET text_lower == lower(text)
        direct == {i \in 1..Len(variations) : contains(variations[i], text_lower)}
    IN  IF direct # {}
        THEN MatchResult(TRUE, variations[CHOOSE i \in direct : \A j \in direct : i <= j], 100)
        ELSE fuzzy_loop(text_lower, split(text_lower), variations, threshold)

-----------------------------------------------------------------------------
(* RelevanceScorer: calculate_marketing_relevance,                          *)
(* categorize_marketing_potential                                           *)

high_intent_phrases ==
    << <<"l","o","o","k","i","n","g"," ","f","o","r">>,
       <<"n","e","e","d"," ","h","e","l","p">>,
       <<"r","e","c","o","m","m","e","n","d","a","t","i","o","n","s">>,
       <<"w","h","e","r","e"," ","t","o"," ","b","u","y">>,
       <<"b","e","s","t"," ","p","l","a","c","e">>,
       <<"h","e","l","p"," ","m","e"," ","c","h","o","o","s","e">>,
       <<"a","d","v","i","c","e"," ","n","e","e","d","e","d">>,
       <<"s","h","o","u","l","d"," ","i"," ","b","u","y">>,
       <<"w","o","r","t","h"," ","b","u","y","i","n","g">>,
       <<"c","o","m","p","a","r","i","n","g">>,
       <<"v","s">>,
       <<"b","e","t","t","e","r"," ","o","p","t","i","o","n">>,
       <<"a","l","t","e","r","n","a","t","i","v","e","s">>,
       <<"s","u","g","g","e","s","t","i","o","n","s">>,
       <<"b","u","d","g","e","t">>,
       <<"p","r","i","c","e"," ","r","a","n","g","e">>,
       <<"a","f","f","o","r","d","a","b","l","e">>,
       <<"c","h","e","a","p">>,
       <<"e","x","p","e","n","s","i","v","e">>,
       <<"q","u","a","l","i","t","y">>,
       <<"r","e","v","i","e","w","s">>,
       <<"e","x","p","e","r","i","e","n","c","e"," ","w","i","t","h">>,
       <<"a","n","y","o","n","e"," ","t","r","i","e","d">>,
       <<"t","h","i","n","k","i","n","g"," ","o","f"," ","b","u","y","i","n","g">>,
       <<"p","l","a","n","n","i","n","g"," ","t","o"," ","b","u","y">>,
       <<"a","b","o","u","t"," ","t","o"," ","p","u","r","c","h","a","s","e">>,
       <<"c","u","s","t","o","m">>,
       <<"m","a","d","e"," ","t","o"," ","o","r","d","e","r">>,
       <<"p","e","r","s","o","n","a","l","i","z","e","d">>,
       <<"b","e","s","p","o","k","e">> >>

medium_intent_phrases ==
    << <<"w","h","a","t"," ","d","o"," ","y","o","u"," ","t","h","i","n","k">>,
       <<"o","p","i","n","i","o","n","s">>,
       <<"t","h","o","u","g","h","t","s">>,
       <<"f","e","e","d","b","a","c","k">>,
       <<"p","r","o","s"," ","a","n","d"," ","c","o","n","s">>,
       <<"w","o","r","t","h"," ","i","t">>,
       <<"g","o","o","d"," ","i","d","e","a">>,
       <<"b","a","d"," ","i","d","e","a">>,
       <<"h","o","w"," ","m","u","c","h">>,
       <<"c","o","s","t">>,
       <<"p","r","i","c","i","n","g">>,
       <<"q","u","o","t","e","s">> >>

low_intent_phrases ==
    << <<"m","y"," ","n","e","w">>,
       <<"j","u","s","t"," ","g","o","t">>,
       <<"f","i","n","a","l","l","y"," ","r","e","c","e","i","v","e","d">>,
       <<"a","r","r","i","v","e","d"," ","t","o","d","a","y">>,
       <<"l","o","v","e"," ","m","y">>,
       <<"s","o"," ","h","a","p","p","y"," ","w","i","t","h">>,
       <<"p","e","r","f","e","c","t">>,
       <<"e","x","a","c","t","l","y"," ","w","h","a","t"," ","i"," ","w","a","n","t","e","d">>,
       <<"c","o","u","l","d","n","'","t"," ","b","e"," ","h","a","p","p","i","e","r">>,
       <<"a","m","a","z","i","n","g"," ","q","u","a","l","i","t","y">>,
       <<"h","e","r","e"," ","i","t"," ","i","s">>,
       <<"f","i","n","a","l","l","y"," ","h","e","r","e">>,
       <<"d","e","l","i","v","e","r","y">>,
       <<"u","n","b","o","x","i","n","g">> >>

question_patterns ==
    << <<"?">>,
       <<"h","o","w">>,
       <<"w","h","a","t">>,
       <<"w","h","e","r","e">>,
       <<"w","h","e","n">>,
       <<"w","h","y">>,
       <<"w","h","i","c","h">>,
       <<"w","h","o">> >>

RECURSIVE scan_phrases(_, _, _, _)
\* one `for phrase in ...: if phrase in text:` loop: the score it adds and the
\* reasons it appends, in list order
scan_phrases(phrases, text, weight, label) ==
    IF phrases = <<>> THEN [score |-> 0, reasons |-> <<>>]
    ELSE LET rest == scan_phrases(Tail(phrases), text, weight, label)
         IN  IF contains(Head(phrases), text)
             THEN [score |-> weight + rest.score,
                   reasons |-> <<<<label, Head(phrases)>>>> \o rest.reasons]
             ELSE rest

RECURSIVE count_patterns(_, _)
\* sum(1 for pattern in question_patterns if pattern in text)
count_patterns(patterns, text) ==
    IF patterns = <<>> THEN 0
    ELSE (IF contains(Head(patterns), text) THEN 1 ELSE 0)
         + count_patterns(Tail(patterns), text)

\* a plausible slip: the score is returned without max(score, 0)
calculate_marketing_relevance_noclamp(post_title, post_body) ==
    LET text == lower(post_title \o <<" ">> \o post_body)
        high == scan_phrases(high_intent_phrases, text, 3, "High intent")
        medium == scan_phrases(medium_intent_phrases, text, 2, "Medium intent")
        low == scan_phrases(low_intent_phrases, text, -2, "Low intent")
        question_count == count_patterns(question_patterns, text)
    IN  [score |-> high.score + medium.score + low.score + Min(question_count, 3),
         reasons |-> high.reasons \o medium.reasons \o low.reasons
                     \o (IF question_count > 0
                         THEN <<<<"Question indicators", question_count>>>> ELSE <<>>)]

\* the returned pair (max_score, reasons)
calculate_marketing_relevance(post_title, post_body) ==
    LET text == lower(post_title \o <<" ">> \o post_body)
        high == scan_phrases(high_intent_phrases, text, 3, "High intent")
        medium == scan_phrases(medium_intent_phrases, text, 2, "Medium intent")
        low == scan_phrases(low_intent_phrases, text, -2, "Low intent")
        question_count == count_patterns(question_patterns, text)
        score == high.score + medium.score + low.score
                 + (IF question_count > 0 THEN Min(question_count, 3) ELSE 0)
    IN  [score |-> Max(score, 0),
         reasons |-> high.reasons \o medium.reasons \o low.reasons
                     \o (IF question_count > 0
                         THEN <<<<"Question indicators", question_count>>>> ELSE <<>>)]

\* a plausible slip: > in place of >= at the High threshold
categorize_marketing_potential_strict(score) ==
    IF score > 6 THEN "High"
    ELSE IF score >= 3 THEN "Medium"
    ELSE IF score >= 1 THEN "Low"
    ELSE "Very Low"

categorize_marketing_potential(score) ==
    IF score >= 6 THEN "High"
    ELSE IF score >= 3 THEN "Medium"
    ELSE IF score >= 1 THEN "Low"
    ELSE "Very Low"

-----------------------------------------------------------------------------
(* PostAnalysisPipeline: get_enhanced_reddit_posts                          *)

\* len(posts) >= 200 ends the search
PostCap == 200
\* search(query, sort="top", limit=100, time_filter="year"): at most this
\* many submissions per listing, fetched in one request
SearchLimit == 100
\* body_text[:500] + "..."
BodyPreviewLen == 500
\* keyword_variations[:5]
MaxVariationQueries == 5

REDDIT_COM == <<"r", "e", "d", "d", "i", "t", ".", "c", "o", "m">>

intent_queries ==
    << <<"l", "o", "o", "k", "i", "n", "g", " ", "f", "o", "r">>,
       <<"n", "e", "e", "d", " ", "h", "e", "l", "p">>,
       <<"r", "e", "c", "o", "m", "m", "e", "n", "d", "a", "t", "i", "o", "n", "s">>,
       <<"h", "e", "l", "p", " ", "m", "e", " ", "c", "h", "o", "o", "s", "e">>,
       <<"a", "d", "v", "i", "c", "e">>,
       <<"s", "u", "g", "g", "e", "s", "t", "i", "o", "n", "s">> >>

is_internal_link(post) ==
    (~post.is_self /\ contains(REDDIT_COM, post.url)) \/ post.is_self

\* comment_filter = None
None == <<>>

\* a plausible slip: ">=" compares as ">"
passes_comment_filter_strict(filter, num_comments) ==
    IF filter = None THEN TRUE
    ELSE LET operator == filter[1]
             value == filter[2]
         IN  IF operator = "=" /\ ~(num_comments = value) THEN FALSE
             ELSE IF operator = ">" /\ ~(num_comments > value) THEN FALSE
             ELSE IF operator = ">=" /\ ~(num_comments > value) THEN FALSE
             ELSE IF operator = "<" /\ ~(num_comments < value) THEN FALSE
             ELSE IF operator = "<=" /\ ~(num_comments <= value) THEN FALSE
             ELSE TRUE

\* lines 237-248: TRUE when the submission is not skipped by `continue`
passes_comment_filter(filter, num_comments) ==
    IF filter = None THEN TRUE
    ELSE LET operator == filter[1]
             value == filter[2]
         IN  IF operator = "=" /\ ~(num_comments = value) THEN FALSE
             ELSE IF operator = ">" /\ ~(num_comments > value) THEN FALSE
             ELSE IF operator = ">=" /\ ~(num_comments >= value) THEN FALSE
             ELSE IF operator = "<" /\ ~(num_comments < value) THEN FALSE
             ELSE IF operator = "<=" /\ ~(num_comments <= value) THEN FALSE
             ELSE TRUE

\* datetime.date(): the day of a time given in seconds
date(t) == t \div 86400

\* lines 226-228: the texts of a submission
title_text_of(submission) == submission.title
body_text_of(submission) == IF submission.is_self THEN submission.selftext ELSE <<>>

\* lines 231-233 and 251-252: what is computed from the two texts alone
text_analysis(title_text, body_text, variations, threshold) ==
    [title_text |-> title_text,
     body_text |-> body_text,
     m |-> fuzzy_match_keywords(title_text \o <<" ">> \o body_text, variations, threshold),
     relevance |-> calculate_marketing_relevance(title_text, body_text)]

\* lines 222-268 for one submission, `analysis` being the text_analysis of
\* its texts: the dicts appended to posts, none when the submission is
\* skipped. `origin` is not a key of the dict: it records the index of the
\* channel whose search returned the submission.
analyze_submission(submission, analysis, filter, from_date, to_date, origin) ==
    LET created == submission.created_utc
        body_text == analysis.body_text
    IN  IF ~(from_date <= created /\ created <= to_date /\ is_internal_link(submission))
        THEN <<>>
        ELSE IF ~analysis.m.matched THEN <<>>
        ELSE IF ~passes_comment_filter(filter, submission.num_comments) THEN <<>>
        ELSE <<[Title |-> analysis.title_text,
                Body |-> IF Len(body_text) > BodyPreviewLen
                         THEN SubSeq(body_text, 1, BodyPreviewLen) \o <<".", ".", ".">>
                         ELSE body_text,
                Score |-> submission.score,
                UpvoteRatio |-> submission.upvote_ratio,
                Comments |-> submission.num_comments,
                Subreddit |-> submission.subreddit,
                Permalink |-> <<"https://reddit.com", submission.permalink>>,
                Created |-> date(created),
                MatchedKeyword |-> analysis.m.variation,
                MatchScore |-> analysis.m.score,
                MarketingScore |-> analysis.relevance.score,
                MarketingPotential |->
                    categorize_marketing_potential(analysis.relevance.score),
                RelevanceReasons |-> analysis.relevance.reasons,
                origin |-> origin]>>

\* the `for submission in search_results` loop: the dicts it appends, in
\* order. The match and the relevance of a submission depend on its two
\* texts only: they are computed once for each pair of texts of the listing.
analyze_listing(listing, variations, threshold, filter, from_date, to_date, origin) ==
    LET texts == {<<title_text_of(listing[j]), body_text_of(listing[j])>> :
                    j \in 1..Len(listing)}
        analyses == {text_analysis(t[1], t[2], variations, threshold) : t \in texts}
        analysis_of(submission) ==
            CHOOSE a \in analyses : /\ a.title_text = title_text_of(submission)
                                    /\ a.body_text = body_text_of(submission)
        analysed == [j \in 1..Len(listing) |->
                        analyze_submission(listing[j], analysis_of(listing[j]),
                                           filter, from_date, to_date, origin)]
        appended == SelectSeq(analysed, LAMBDA a : a # <<>>)
    IN  [j \in 1..Len(appended) |-> appended[j][1]]

RECURSIVE remove_duplicates_in(_, _, _, _)
\* the loop of lines 282-285 over ps[lo..hi], entered with seen_permalinks:
\* the posts it appends to unique_posts. The range is run in two halves, the
\* second entered with what the first has added to seen_permalinks.
remove_duplicates_in(ps, lo, hi, seen_permalinks) ==
    IF lo > hi THEN <<>>
    ELSE IF lo = hi
    THEN (IF ps[lo].Permalink \notin seen_permalinks THEN <<ps[lo]>> ELSE <<>>)
    ELSE LET mid == (lo + hi) \div 2
             first == remove_duplicates_in(ps, lo, mid, seen_permalinks)
         IN  first \o remove_duplicates_in(ps, mid + 1, hi,
                         seen_permalinks \cup {first[i].Permalink : i \in 1..Len(first)})

\* a plausible slip: the last post of every permalink is kept
remove_duplicates_keeplast(ps) ==
    LET n == Len(ps)
        reversed == [i \in 1..n |-> ps[n + 1 - i]]
        kept == remove_duplicates_in(reversed, 1, n, {})
    IN  [i \in 1..Len(kept) |-> kept[Len(kept) + 1 - i]]

\* lines 279-287: the first post of every permalink, in order
remove_duplicates(ps) == remove_duplicates_in(ps, 1, Len(ps), {})

target_subreddits == IF subreddits # <<>> THEN subreddits ELSE <<"all">>

\* lines 202-213
build_search_queries(variations) ==
    [i \in 1..Min(Len(variations), MaxVariationQueries) |-> <<"title", variations[i]>>]
    \o [i \in 1..Len(intent_queries) |-> <<"title", intent_queries[i]>>]

\* the orders list(set(...)) can give a set
Orderings(S) == {l \in [1..Cardinality(S) -> S] : \A i, j \in 1..Cardinality(S) : i # j => l[i] # l[j]}

\* The search source. Submission i of a channel, as the n-th listing shows
\* it (its vote count moves between listings): most are self posts that name
\* the keyword; every 20 submissions there are an external link, a link back
\* to reddit.com, an unrelated post, an old post, a near-miss title, a post
\* that names the keyword in its body only, and a question.
Submission(sub, i, n) ==
    LET k == i % 20
    IN  [permalink |-> <<sub, i>>,
         subreddit |-> sub,
         title |-> CASE k = 9 -> <<"a">>
                     [] k = 13 -> <<"s">>
                     [] k = 17 -> <<"a">>
                     [] k = 19 -> <<"B", "?">>
                     [] OTHER -> <<"b">>,
         selftext |-> IF k = 17 THEN <<"B", "s">> ELSE <<>>,
         is_self |-> k \notin {3, 7},
         url |-> IF k = 3 THEN <<"e", ".", "o", "r", "g">>
                 ELSE <<"r", "e", "d", "d", "i", "t", ".", "c", "o", "m", "/", "r">>,
         created_utc |-> IF k = 11 THEN 86400 * 9 + 86399 ELSE 86400 * (10 + (i % 11)) + (i % 2) * 86399,
         num_comments |-> i % 3,
         score |-> (i + n) % 7,
         upvote_ratio |-> 50 + (i % 50)]

\* the n-th non-empty listing the source returns for channel `sub`: a full
\* page, whose last ten submissions also open the next listing; the source
\* has MaxListings of them, every further search finds nothing
Listing(sub, n) ==
    [j \in 1..SearchLimit |-> Submission(IF sub = "all" THEN "x" ELSE sub, 90 * (n - 1) + j, n)]

MaxSubreddits == 2
MaxListings == 4
PipeKeywordInputs == {<<>>, <<" ">>, <<",">>, <<"b">>}
SubredditNames == <<"x", "y", "x">>
SubredditLists == {SubSeq(SubredditNames, 1, k) : k \in 0..MaxSubreddits}
CommentFilters == {None} \cup ({"=", ">", ">=", "<", "<="} \X {1})
PipeThresholds == {60}

\* entry of get_enhanced_reddit_posts; the date range is
\* datetime.combine(start, min.time()) .. datetime.combine(end, max.time())
Init ==
    /\ pc = "start"
    /\ args = NoValue /\ ret = NoValue
    /\ keyword_input \in PipeKeywordInputs
    /\ start_date = 86400 * 10
    /\ end_date = 86400 * 20 + 86399
    /\ subreddits \in SubredditLists
    /\ comment_filter \in CommentFilters
    /\ fuzzy_threshold \in PipeThresholds
    /\ keyword_variations = NoValue
    /\ search_queries = NoValue
    /\ sub_idx = 0 /\ query_idx = 0
    /\ posts = <<>>
    /\ unique_posts = <<>>
    /\ warnings = <<>>
    /\ searched = {} /\ failed = {}
    /\ served = 0

\* a plausible slip: no early return for an empty variation list
Start_noreturn ==
    /\ pc = "start"
    /\ keyword_variations' \in Orderings(process_multiple_keywords(keyword_input))
    /\ search_queries' = build_search_queries(keyword_variations')
    /\ sub_idx' = 1 /\ query_idx' = 1
    /\ pc' = "search"
    /\ UNCHANGED <<args, ret, keyword_input, start_date, end_date, subreddits,
                   comment_filter, fuzzy_threshold, posts, unique_posts, warnings,
                   searched, failed, served>>

\* lines 190-213: the variations, the early return, the queries
Start ==
    /\ pc = "start"
    /\ LET variations == process_multiple_keywords(keyword_input)
       IN  IF variations = {}
           THEN /\ keyword_variations' = <<>>
                /\ unique_posts' = <<>>
                /\ pc' = "done"
                /\ UNCHANGED <<search_queries, sub_idx, query_idx>>
           ELSE /\ keyword_variations' \in Orderings(variations)
                /\ search_queries' = build_search_queries(keyword_variations')
                /\ sub_idx' = 1 /\ query_idx' = 1
                /\ pc' = "search"
                /\ UNCHANGED unique_posts
    /\ UNCHANGED <<args, ret, keyword_input, start_date, end_date, subreddits,
                   comment_filter, fuzzy_threshold, posts, warnings, searched,
                   failed, served>>

\* lines 279-287: the return
Finish(all_posts) ==
    /\ unique_posts' = remove_duplicates(all_posts)
    /\ pc' = "done"
    /\ UNCHANGED <<sub_idx, query_idx>>

NextSubreddit(all_posts) ==
    IF sub_idx < Len(target_subreddits)
    THEN /\ sub_idx' = sub_idx + 1
         /\ query_idx' = 1
         /\ UNCHANGED <<unique_posts, pc>>
    ELSE Finish(all_posts)

\* lines 219-274, one query: the search returns a listing, its submissions
\* are analysed, then the two cap checks; after the last query the return
SearchReturns ==
    /\ pc = "search"
    /\ \E nonempty \in (IF served < MaxListings THEN BOOLEAN ELSE {FALSE}) :
        LET sub == target_subreddits[sub_idx]
            search_results == IF nonempty THEN Listing(sub, served + 1) ELSE <<>>
            all_posts == posts \o analyze_listing(search_results, keyword_variations,
                                     fuzzy_threshold, comment_filter, start_date,
                                     end_date, sub_idx)
        IN  /\ served' = IF nonempty THEN served + 1 ELSE served
            /\ posts' = all_posts
            /\ IF Len(all_posts) >= PostCap THEN Finish(all_posts)
               ELSE IF query_idx < Len(search_queries)
               THEN /\ query_idx' = query_idx + 1
                    /\ UNCHANGED <<sub_idx, unique_posts, pc>>
               ELSE NextSubreddit(all_posts)
    /\ searched' = searched \cup {sub_idx}
    /\ UNCHANGED <<args, ret, keyword_input, start_date, end_date, subreddits,
                   comment_filter, fuzzy_threshold, keyword_variations,
                   search_queries, warnings, failed>>

\* a plausible slip: the try block is around the whole channel loop, so the
\* error leaves get_enhanced_reddit_posts
SearchRaises_uncaught ==
    /\ pc = "search"
    /\ searched' = searched \cup {sub_idx}
    /\ failed' = failed \cup {sub_idx}
    /\ pc' = "raised"
    /\ UNCHANGED <<args, ret, keyword_input, start_date, end_date, subreddits,
                   comment_filter, fuzzy_threshold, keyword_variations,
                   search_queries, sub_idx, query_idx, posts, unique_posts,
                   warnings, served>>

\* a plausible slip: the try block is around one query, so the channel's
\* next query is searched after the warning
SearchRaises_nextquery ==
    /\ pc = "search"
    /\ searched' = searched \cup {sub_idx}
    /\ failed' = failed \cup {sub_idx}
    /\ warnings' = Append(warnings, target_subreddits[sub_idx])
    /\ IF query_idx < Len(search_queries)
       THEN /\ query_idx' = query_idx + 1
            /\ UNCHANGED <<sub_idx, unique_posts, pc>>
       ELSE NextSubreddit(posts)
    /\ UNCHANGED <<args, ret, keyword_input, start_date, end_date, subreddits,
                   comment_filter, fuzzy_threshold, keyword_variations,
                   search_queries, posts, served>>

\* lines 276-277, one query: the search raises on its page request, before
\* any submission; the warning, then the next channel
SearchRaises ==
    /\ pc = "search"
    /\ searched' = searched \cup {sub_idx}
    /\ failed' = failed \cup {sub_idx}
    /\ warnings' = Append(warnings, target_subreddits[sub_idx])
    /\ NextSubreddit(posts)
    /\ UNCHANGED <<args, ret, keyword_input, start_date, end_date, subreddits,
                   comment_filter, fuzzy_threshold, keyword_variations,
                   search_queries, posts, served>>

Next == Start \/ SearchReturns \/ SearchRaises

Spec == Init /\ [][Next]_vars

-----------------------------------------------------------------------------
(* Direct calls of the helper functions: the arguments are drawn in the    *)
(* initial state, the one action is the call                               *)

\* get_enhanced_reddit_posts is not running
PipeIdle ==
    /\ keyword_input = NoValue /\ start_date = NoValue /\ end_date = NoValue
    /\ subreddits = NoValue /\ comment_filter = NoValue /\ fuzzy_threshold = NoValue
    /\ keyword_variations = NoValue /\ search_queries = NoValue
    /\ sub_idx = NoValue /\ query_idx = NoValue /\ posts = NoValue
    /\ unique_posts = NoValue /\ warnings = NoValue
    /\ searched = NoValue /\ failed = NoValue /\ served = NoValue

MaxInputLen == 3
InputAlphabet == {"b", "C", " ", ",", ";", "\n"}
KeywordInputs == SeqsUpTo(InputAlphabet, MaxInputLen)

InitExpand ==
    /\ pc = "call"
    /\ args \in [keyword_input : KeywordInputs]
    /\ ret = NoValue
    /\ PipeIdle

CallExpand ==
    /\ pc = "call"
    /\ ret' = process_multiple_keywords(args.keyword_input)
    /\ pc' = "return"
    /\ UNCHANGED <<args, pipeVars>>

SpecExpand == InitExpand /\ [][CallExpand]_vars

MaxTextLen == 3
MaxVariations == 2
TextAlphabet == {"a", "B", " "}
MatchTexts == SeqsUpTo(TextAlphabet, MaxTextLen)
\* variations as process_multiple_keywords yields them: non-empty, lower-case,
\* without surrounding whitespace, pairwise distinct, in any order
VariationPool == {<<"a">>, <<"b">>, <<"a", "b">>, <<"a", "b", "b">>, <<"b", "a">>}
VariationLists ==
    {l \in SeqsUpTo(VariationPool, MaxVariations) :
        \A i, j \in 1..Len(l) : i # j => l[i] # l[j]}
Thresholds == {0, 50, 60, 67, 80, 100}

InitMatch ==
    /\ pc = "call"
    /\ args \in [text : MatchTexts, keyword_variations : VariationLists,
                 threshold : Thresholds]
    /\ ret = NoValue
    /\ PipeIdle

CallMatch ==
    /\ pc = "call"
    /\ ret' = fuzzy_match_keywords(args.text, args.keyword_variations, args.threshold)
    /\ pc' = "return"
    /\ UNCHANGED <<args, pipeVars>>

SpecMatch == InitMatch /\ [][CallMatch]_vars

MaxTitleParts == 2
ScoreFragments ==
    { <<"L","o","o","k","i","n","g"," ","f","o","r">>,
      <<"V","S">>,
      <<"m","y"," ","n","e","w">>,
      <<"p","e","r","f","e","c","t">>,
      <<"h","o","w"," ","m","u","c","h","?">>,
      <<"w","h","a","t"," ","w","h","e","r","e"," ","w","h","y">> }
ScoreBodies ==
    { <<>>,
      <<"j","u","s","t"," ","g","o","t">>,
      <<"O","p","i","n","i","o","n","s">> }
ScoreTitles == {join(<<" ">>, l) : l \in SeqsUpTo(ScoreFragments, MaxTitleParts)}

InitScore ==
    /\ pc = "call"
    /\ args \in [post_title : ScoreTitles, post_body : ScoreBodies]
    /\ ret = NoValue
    /\ PipeIdle

CallScore ==
    /\ pc = "call"
    /\ ret' = calculate_marketing_relevance(args.post_title, args.post_body)
    /\ pc' = "return"
    /\ UNCHANGED <<args, pipeVars>>

SpecScore == InitScore /\ [][CallScore]_vars

ScoreBound == 60

InitCategorize ==
    /\ pc = "call"
    /\ args \in [score : -ScoreBound..ScoreBound]
    /\ ret = NoValue
    /\ PipeIdle

CallCategorize ==
    /\ pc = "call"
    /\ ret' = categorize_marketing_potential(args.score)
    /\ pc' = "return"
    /\ UNCHANGED <<args, pipeVars>>

SpecCategorize == InitCategorize /\ [][CallCategorize]_vars

-----------------------------------------------------------------------------
(* Claims about the helper functions *)

\* a character that is neither whitespace nor a delimiter occurs in s
HasKeywordChar(s) == \E i \in 1..Len(s) : s[i] \notin Whitespace \cup Delimiters

\* C6, as stated: every VariantSet produced by process_multiple_keywords is
\* non-empty whenever the raw input is non-empty after trimming, inputs made
\* only of delimiters included
C6_NonEmptyWhenTrimmedNonEmpty ==
    (pc = "return" /\ strip(args.keyword_input) # <<>>) => ret # {}

\* C6, amended: the VariantSet is non-empty whenever the raw input holds at
\* least one character that is neither whitespace nor one of the delimiters
\* comma, semicolon, newline; every variant in it is a non-empty string
C6_NonEmptyWhenKeywordChar ==
    pc = "return" =>
        /\ HasKeywordChar(args.keyword_input) => ret # {}
        /\ <<>> \notin ret

C6_Witness ==
    /\ pc = "return"
    /\ HasKeywordChar(args.keyword_input)
    /\ \E i \in 1..Len(args.keyword_input) : args.keyword_input[i] \in Delimiters
    /\ Cardinality(ret) > 1

\* C7: if some variant occurs as a substring of the lower-cased text then
\* fuzzy_match_keywords returns matched = true with score exactly 100 and a
\* matched variant that is a substring of the lower-cased text, and the same
\* result for every threshold in 0..100
C7_DirectMatchScores100 ==
    (pc = "return"
       /\ \E v \in Range(args.keyword_variations) : contains(v, lower(args.text)))
    => /\ ret.matched = TRUE
       /\ ret.score = 100
       /\ ret.variation \in Range(args.keyword_variations)
       /\ contains(ret.variation, lower(args.text))
       /\ \A t \in 0..100 :
            fuzzy_match_keywords(args.text, args.keyword_variations, t) = ret

C7_Witness ==
    /\ pc = "return"
    /\ args.threshold = 100
    /\ Len(args.keyword_variations) = 2
    /\ ~contains(args.keyword_variations[1], lower(args.text))
    /\ contains(args.keyword_variations[2], lower(args.text))
    /\ ~contains(args.keyword_variations[2], args.text)
    /\ ret.score = 100

\* variation v has a word of the text whose ratio reaches the threshold
TokenHit(v, text_lower, threshold) ==
    \E w \in Range(split(text_lower)) : fuzz_ratio(v, w) >= threshold

NoDirectHit == \A v \in Range(args.keyword_variations) : ~contains(v, lower(args.text))

\* C9, as stated: when no variant is a substring but some variant has a word
\* ratio >= threshold, the result is a word-level hit: a variant that has
\* such a word, with that ratio
C9_TokenStageBeforePartialStage ==
    (pc = "return" /\ NoDirectHit
       /\ \E v \in Range(args.keyword_variations) :
            TokenHit(v, lower(args.text), args.threshold))
    => /\ ret.matched = TRUE
       /\ TokenHit(ret.variation, lower(args.text), args.threshold)
       /\ \E w \in Range(split(lower(args.text))) :
            /\ fuzz_ratio(ret.variation, w) >= args.threshold
            /\ ret.score = fuzz_ratio(ret.variation, w)

\* C9, amended: when no variant is a substring, the result is that of the
\* first variant, in list order, that has a word ratio >= threshold or a
\* whole-text partial ratio >= threshold; for that variant the word ratio is
\* preferred (the first such word's), and its partial ratio is used only when
\* none of its own word ratios reaches the threshold
C9_PerVariationOrder ==
    (pc = "return" /\ NoDirectHit) =>
        LET kv == args.keyword_variations
            tl == lower(args.text)
            th == args.threshold
            Hit(i) == TokenHit(kv[i], tl, th) \/ fuzz_partial_ratio(kv[i], tl) >= th
            hits == {i \in 1..Len(kv) : Hit(i)}
        IN  IF hits = {} THEN ret = MatchResult(FALSE, NoValue, 0)
            ELSE LET first == CHOOSE i \in hits : \A j \in hits : i <= j
                 IN  /\ ret.matched = TRUE
                     /\ ret.variation = kv[first]
                     /\ IF TokenHit(kv[first], tl, th)
                        THEN \E w \in Range(split(tl)) :
                                /\ fuzz_ratio(kv[first], w) >= th
                                /\ ret.score = fuzz_ratio(kv[first], w)
                        ELSE ret.score = fuzz_partial_ratio(kv[first], tl)

\* a later variant has a word-level hit, yet the first variant's partial
\* ratio decides
C9_Witness ==
    /\ pc = "return" /\ NoDirectHit
    /\ Len(args.keyword_variations) = 2
    /\ ~TokenHit(args.keyword_variations[1], lower(args.text), args.threshold)
    /\ TokenHit(args.keyword_variations[2], lower(args.text), args.threshold)
    /\ ret.variation = args.keyword_variations[1]

\* C8: categorize_marketing_potential maps every integer score to exactly
\* one category, with closed lower bounds: >= 6 High, 3..5 Medium, 1..2 Low,
\* below 1 Very Low
C8_CategoryBoundaries ==
    pc = "return" =>
        /\ ret \in {"High", "Medium", "Low", "Very Low"}
        /\ (ret = "High") = (args.score >= 6)
        /\ (ret = "Medium") = (3 <= args.score /\ args.score < 6)
        /\ (ret = "Low") = (1 <= args.score /\ args.score < 3)
        /\ (ret = "Very Low") = (args.score < 1)

C8_Witness == pc = "return" /\ args.score = 6 /\ ret = "High"

\* the number of distinct phrases of the list that occur in the text
Occurring(phrases, text) == Cardinality({p \in Range(phrases) : contains(p, text)})

\* C10: the score returned by calculate_marketing_relevance equals
\* max(0, 3*H + 2*M - 2*L + min(Q, 3)) for the numbers H, M, L of distinct
\* high-, medium- and low-intent phrases and Q of question indicators that
\* occur in the lower-cased "title body" text, and is never negative
C10_ScoreFormula ==
    pc = "return" =>
        LET text == lower(args.post_title \o <<" ">> \o args.post_body)
            H == Occurring(high_intent_phrases, text)
            M == Occurring(medium_intent_phrases, text)
            L == Occurring(low_intent_phrases, text)
            Q == Occurring(question_patterns, text)
        IN  /\ ret.score = Max(0, 3 * H + 2 * M - 2 * L + Min(Q, 3))
            /\ ret.score >= 0

\* a raw score below zero is clamped
C10_Witness ==
    /\ pc = "return"
    /\ Occurring(low_intent_phrases,
                 lower(args.post_title \o <<" ">> \o args.post_body)) = 3
    /\ Occurring(high_intent_phrases,
                 lower(args.post_title \o <<" ">> \o args.post_body)) = 0
    /\ ret.score = 0

-----------------------------------------------------------------------------
(* Claims about get_enhanced_reddit_posts *)

\* C1: the length of the returned sequence never exceeds 200
C1_OutputAtMostCap ==
    pc = "done" => Len(unique_posts) <= PostCap

Permalinks(ps) == {ps[i].Permalink : i \in 1..Len(ps)}

\* the indexes of the posts that are the first of their permalink
FirstOccurrences(ps) ==
    {j \in 1..Len(ps) : \A k \in 1..(j - 1) : ps[k].Permalink # ps[j].Permalink}

\* C2: the returned sequence holds at most one record per permalink; for
\* every permalink accumulated it is the first record accumulated with it,
\* and the records keep their accumulation order
C2_FirstOccurrencePerPermalink ==
    pc = "done" =>
        LET firsts == FirstOccurrences(posts)
            ascending == SelectSeq([j \in 1..Len(posts) |-> j], LAMBDA j : j \in firsts)
        IN  /\ Cardinality(Permalinks(unique_posts)) = Len(unique_posts)
            /\ Len(unique_posts) = Len(ascending)
            /\ \A k \in 1..Len(ascending) : unique_posts[k] = posts[ascending[k]]

\* a permalink was accumulated twice, with different records
C2_Witness ==
    /\ pc = "done"
    /\ \E j \in 1..Len(posts) :
        /\ j \notin FirstOccurrences(posts)
        /\ posts[j] \notin Range(unique_posts)
    /\ Len(unique_posts) < Len(posts)

RECURSIVE AscendingSeq(_)
\* the elements of a set of numbers, in ascending order
AscendingSeq(S) ==
    IF S = {} THEN <<>>
    ELSE LET least == CHOOSE x \in S : \A y \in S : x <= y
         IN  <<least>> \o AscendingSeq(S \ {least})

\* C3: a search failure in one channel does not fail the call: it is caught,
\* one warning is emitted for that channel, every later channel is still
\* searched unless the cap of 200 has been reached, and the call returns
C3_ChannelFailureIsNotFatal ==
    /\ pc \in {"start", "search", "done"}
    /\ failed \subseteq searched
    /\ warnings = [k \in 1..Cardinality(failed) |->
                      target_subreddits[AscendingSeq(failed)[k]]]
    /\ (pc = "done" /\ keyword_variations # <<>>) =>
          \A i \in failed : \A j \in (i + 1)..Len(target_subreddits) :
              j \in searched \/ Len(posts) >= PostCap

C3_Witness ==
    /\ pc = "done"
    /\ failed = {1}
    /\ 2 \in searched
    /\ Len(warnings) = 1
    /\ \E k \in 1..Len(unique_posts) : unique_posts[k].origin = 2

\* C4, as stated: when the search of a channel fails, the returned sequence
\* holds no post obtained from that channel's searches
C4_FailedChannelAbsent ==
    pc = "done" => \A k \in 1..Len(unique_posts) : unique_posts[k].origin \notin failed

PostsOf(ps, i) == SelectSeq(ps, LAMBDA post : post.origin = i)

\* C4, amended: once the search of a channel has failed no further post of
\* that channel is accumulated; the posts accumulated from it before the
\* failure are not removed, and each of their permalinks is in the returned
\* sequence
C4_FailedChannelKeepsEarlierPosts ==
    [][/\ \A i \in failed' : PostsOf(posts', i) = PostsOf(posts, i)
       /\ Len(posts) <= Len(posts') /\ SubSeq(posts', 1, Len(posts)) = posts
       /\ pc' = "done" /\ keyword_variations' # <<>>
            => Permalinks(unique_posts') = Permalinks(posts')]_vars

C4_Witness ==
    /\ pc = "done"
    /\ \E k \in 1..Len(unique_posts) : unique_posts[k].origin \in failed

\* C5: when the keyword input yields an empty VariantSet the call returns
\* the empty sequence at once: no search call for any channel or query, no
\* warning
C5_EmptyVariantSetReturnsAtOnce ==
    (pc # "start" /\ process_multiple_keywords(keyword_input) = {}) =>
        /\ pc = "done"
        /\ unique_posts = <<>>
        /\ searched = {}
        /\ served = 0
        /\ warnings = <<>>

C5_Witness ==
    /\ pc = "done"
    /\ keyword_input = <<",">>
    /\ unique_posts = <<>>
    /\ searched = {}

\* the submission passed the date, internal-link and keyword-match checks
Candidate(submission) ==
    /\ start_date <= submission.created_utc
    /\ submission.created_utc <= end_date
    /\ is_internal_link(submission)
    /\ fuzzy_match_keywords(title_text_of(submission) \o <<" ">> \o body_text_of(submission),
                            keyword_variations, fuzzy_threshold).matched

\* (num_comments op n), for the filter (op, n)
Compares(filter, num_comments) ==
    \/ filter[1] = "="  /\ num_comments = filter[2]
    \/ filter[1] = "<"  /\ num_comments < filter[2]
    \/ filter[1] = "<=" /\ num_comments <= filter[2]
    \/ filter[1] = ">"  /\ num_comments > filter[2]
    \/ filter[1] = ">=" /\ num_comments >= filter[2]

\* C11: of the submissions of a listing that passed the date, internal-link
\* and keyword-match checks, the ones accumulated are exactly those whose
\* comment count compares as the filter (op, n) says, for each of the five
\* operators; with no filter every one of them is accumulated
C11_CommentFilterDecides ==
    [][served' = served + 1 =>
        LET listing == Listing(target_subreddits[sub_idx], served')
            added == {<<posts'[k].Permalink, posts'[k].Comments>> :
                        k \in (Len(posts) + 1)..Len(posts')}
        IN  \A j \in 1..Len(listing) :
                Candidate(listing[j]) =>
                    (<<(<<"https://reddit.com", listing[j].permalink>>),
                       listing[j].num_comments>> \in added
                     <=> (comment_filter = None
                          \/ Compares(comment_filter, listing[j].num_comments)))]_vars

\* under the filter (">=", 1) posts with exactly one comment were
\* accumulated and every candidate without comments was discarded
C11_Witness ==
    /\ comment_filter = <<">=", 1>>
    /\ served >= 1
    /\ \E k \in 1..Len(posts) : posts[k].Comments = 1
    /\ \E k \in 1..Len(posts) : posts[k].Comments = 2
    /\ \A k \in 1..Len(posts) : posts[k].Comments # 0
    /\ \E j \in 1..SearchLimit :
          /\ Candidate(Listing(target_subreddits[1], 1)[j])
          /\ Listing(target_subreddits[1], 1)[j].num_comments = 0

=============================================================================
